---- MODULE Spec2Model ----
(***************************************************************************)
(* Due-date engine of the vehicle maintenance helpers:                     *)
(*   camry_maint_app.py  (single vehicle, "camry")                         *)
(*   car_maintenances.py (multi vehicle,  "car")                           *)
(*   maintenance_bot.py  (command line, the bot_ definitions)              *)
(*                                                                         *)
(* Representation of Python values                                         *)
(*   None / NaN      the empty tuple <<>>;  a present value v is <<v>>     *)
(*   float           an integer count of 1/Denom miles                     *)
(*   int             an integer                                            *)
(*   date            a tuple <<year, month, day>>                          *)
(*   date text       [fmt, ymd]: fmt "us" is MM/DD/YYYY, "iso" is           *)
(*                   YYYY-MM-DD, "bad" is any other text, "none" is None   *)
(*   free text       a sequence of one-character strings                   *)
(***************************************************************************)
EXTENDS Integers, Sequences, FiniteSets, TLC

VARIABLES app, csv, rules, current_mileage, today,
          pc, df, i, results,
          hits, last, due_mileage, due_date, miles_until, days_until,
          cfg, data, ref_miles, ref_date,
          bot_pc, ref_mi, ref_dt, bot_i, bot_rows,
          a_mi, a_dt, next_mi, next_dt,
          data_file, date_var, rec_miles_var, service_var, note_var,
          args, fs, main_pc, df_srv, df_odo, tasks_cfg

\* the state of camry_maint_app / car_maintenances
appvars == <<app, csv, rules, current_mileage, pc, df, i, results,
             hits, last, due_mileage, due_date, miles_until, days_until>>

\* the state of maintenance_bot: configuration, data file, command-line
\* arguments, and the locals of build_rows and compute
botvars == <<cfg, data, ref_miles, ref_date, bot_pc, ref_mi, ref_dt, bot_i,
             bot_rows, a_mi, a_dt, next_mi, next_dt>>

\* the data file on disk and the entry fields of the "add record" form
formvars == <<data_file, date_var, rec_miles_var, service_var, note_var>>

\* parse_cardata: the command line, the files of the repository folder, and
\* the position and locals of main
parsevars == <<args, fs, main_pc, df_srv, df_odo, tasks_cfg>>

vars == <<app, csv, rules, current_mileage, today, pc, df, i, results,
          hits, last, due_mileage, due_date, miles_until, days_until,
          cfg, data, ref_miles, ref_date, bot_pc, ref_mi, ref_dt, bot_i,
          bot_rows, a_mi, a_dt, next_mi, next_dt,
          data_file, date_var, rec_miles_var, service_var, note_var,
          args, fs, main_pc, df_srv, df_odo, tasks_cfg>>

\* ---------------------------------------------------------------- values

None == <<>>
Some(v) == <<v>>
Val(x) == x[1]

\* floats are held as multiples of 1/Denom mile
Denom == 2

\* float(n) for an int n
ToFloat(n) == n * Denom

\* int(x) rounding up instead of truncating
PyInt_ceil(x) == IF x >= 0 THEN (x + Denom - 1) \div Denom ELSE -((-x) \div Denom)

\* int(x) for a float x: truncation toward zero
PyInt(x) == IF x >= 0 THEN x \div Denom ELSE -((-x) \div Denom)

Min(a, b) == IF a <= b THEN a ELSE b

\* ---------------------------------------------------------------- text

\* str.lower on one character
LowerChar(c) ==
  CASE c = "O" -> "o"
    [] c = "I" -> "i"
    [] c = "L" -> "l"
    [] OTHER   -> c

\* str.lower
Lower(s) == [k \in 1..Len(s) |-> LowerChar(s[k])]

\* Series.str.contains(kw) for a keyword without regex metacharacters
Contains(s, kw) ==
  \E k \in 0..(Len(s) - Len(kw)) : SubSeq(s, k + 1, k + Len(kw)) = kw

\* str.strip / str.lower on the trigger texts the rule files use
StripTrigger(t) ==
  CASE t = " mileage_only " -> "mileage_only"
    [] t = " MILEAGE_ONLY " -> "MILEAGE_ONLY"
    [] OTHER -> t

LowerTrigger(t) ==
  CASE t = "MILEAGE_ONLY"   -> "mileage_only"
    [] t = " MILEAGE_ONLY " -> " mileage_only "
    [] t = "Earliest"       -> "earliest"
    [] OTHER -> t

\* ---------------------------------------------------------------- dates

IsLeap(y) == y % 4 = 0 /\ (y % 100 # 0 \/ y % 400 = 0)

\* calendar.monthrange(y, m)[1]
DaysInMonth(y, m) ==
  IF m = 2 THEN (IF IsLeap(y) THEN 29 ELSE 28)
  ELSE IF m \in {4, 6, 9, 11} THEN 30 ELSE 31

\* days in the months of year y before month m
RECURSIVE DaysBeforeMonth(_, _)
DaysBeforeMonth(y, m) ==
  IF m <= 1 THEN 0 ELSE DaysBeforeMonth(y, m - 1) + DaysInMonth(y, m - 1)

\* date.toordinal
Ordinal(d) ==
  LET y == d[1] - 1
  IN  (y * 365) + (y \div 4) - (y \div 100) + (y \div 400)
      + DaysBeforeMonth(d[1], d[2]) + d[3]

\* (a - b).days
DaysBetween(a, b) == Ordinal(a) - Ordinal(b)

\* d + relativedelta(months=+n)
AddMonthsDelta(d, n) ==
  LET t  == d[2] - 1 + n
      y  == d[1] + (t \div 12)
      mo == (t % 12) + 1
  IN  <<y, mo, Min(d[3], DaysInMonth(y, mo))>>

UsText(d)  == [fmt |-> "us",  ymd |-> d]
IsoText(d) == [fmt |-> "iso", ymd |-> d]
BadText    == [fmt |-> "bad", ymd |-> <<0, 0, 0>>]
NoText     == [fmt |-> "none", ymd |-> <<0, 0, 0>>]

\* parse_date_us: datetime.strptime(str(s), "%m/%d/%Y").date(), None on failure
parse_date_us(s) == IF s.fmt = "us" THEN Some(s.ymd) ELSE None

\* parse_flexible_date: MM/DD/YYYY, then YYYY-MM-DD, else None
parse_flexible_date(s) ==
  IF s.fmt = "none" THEN None
  ELSE IF s.fmt = "us" THEN Some(s.ymd)
  ELSE IF s.fmt = "iso" THEN Some(s.ymd)
  ELSE None

\* ---------------------------------------------------------------- rules

\* raw YAML scalars: [t, v] with t "none" (absent or null), "int" (v an
\* integer), "num" (v a float) or "text" (a non-numeric string)
NoRaw      == [t |-> "none", v |-> 0]
IntRaw(n)  == [t |-> "int",  v |-> n]
NumRaw(x)  == [t |-> "num",  v |-> x]
TextRaw    == [t |-> "text", v |-> 0]

\* int(rule.get(k, 0) or 0): None when int() raises ValueError
IntOrZero(raw) ==
  IF raw.t = "none" THEN Some(0)
  ELSE IF raw.t = "int" THEN Some(raw.v)
  ELSE None

\* rule.get("label", rule.get("key", dflt))
LabelOf(rule, dflt) ==
  IF rule.label # None THEN Val(rule.label)
  ELSE IF rule.key # None THEN Val(rule.key)
  ELSE dflt

\* ---------------------------------------------------------------- matcher

\* normalize_services: adds service_text and its lower-cased copy
normalize_services(rows) ==
  [k \in 1..Len(rows) |->
     [date         |-> rows[k].date,
      mileage      |-> rows[k].mileage,
      service      |-> rows[k].service,
      note         |-> rows[k].note,
      service_text |-> rows[k].service,
      service_norm |-> Lower(rows[k].service)]]

\* mask |= df["service_norm"].str.contains(kw, na=False), for kw in rule["match"]
MatchMask(d, rule) ==
  {k \in 1..Len(d) :
     \E n \in 1..Len(rule.match) : Contains(d[k].service_norm, rule.match[n])}

\* ascending order of one sort column, missing values (None, NaN) last
NaLastLess(x, y) ==
  IF x = None THEN FALSE
  ELSE IF y = None THEN TRUE
  ELSE Val(x) < Val(y)

\* the column hits["parsed_date"], as day numbers
ParsedDateCol(row) ==
  LET p == parse_date_us(row.date)
  IN  IF p = None THEN None ELSE Some(Ordinal(Val(p)))

\* order of sort_values(["parsed_date","mileage"], ascending=[True, True])
RowLess(a, b) ==
  \/ NaLastLess(ParsedDateCol(a), ParsedDateCol(b))
  \/ /\ ParsedDateCol(a) = ParsedDateCol(b)
     /\ NaLastLess(a.mileage, b.mileage)

\* LastSorted with the rows ordered by parsed_date alone
LastSorted_date_only(d, h) ==
  CHOOSE j \in h :
    \A k \in h \ {j} :
      \/ NaLastLess(ParsedDateCol(d[k]), ParsedDateCol(d[j]))
      \/ (ParsedDateCol(d[k]) = ParsedDateCol(d[j]) /\ k < j)

\* hits.sort_values(...).iloc[-1]: the last row of the stably sorted hits
LastSorted(d, h) ==
  CHOOSE j \in h :
    \A k \in h \ {j} :
      \/ RowLess(d[k], d[j])
      \/ (~RowLess(d[j], d[k]) /\ k < j)

\* row.to_dict(), restricted to the keys the caller reads
RowDict(row) ==
  [service_text |-> row.service_text,
   date         |-> row.date,
   mileage      |-> row.mileage,
   note         |-> row.note]

\* camry_maint_app.last_event_for_rule
camry_last_event_for_rule(d, rule) ==
  LET h == MatchMask(d, rule)
  IN  IF h = {} THEN None ELSE Some(RowDict(d[LastSorted(d, h)]))

\* float(b_mi_raw), None when absent or not a number
BaselineMileage(raw) ==
  IF raw.t = "int" THEN Some(ToFloat(raw.v))
  ELSE IF raw.t = "num" THEN Some(raw.v)
  ELSE None

\* parse_flexible_date(b_date_raw) if b_date_raw else None
BaselineDate(raw) == IF raw.fmt = "none" THEN None ELSE parse_flexible_date(raw)

\* BaselineEvent that gives up unless both baseline values are usable
BaselineEvent_needs_both(rule) ==
  LET b_date == BaselineDate(rule.baseline_date)
      b_mi   == BaselineMileage(rule.baseline_mileage)
  IN  IF b_date = None \/ b_mi = None THEN None
      ELSE Some([service_text |-> <<"(baseline) ">> \o LabelOf(rule, <<"Baseline">>),
                 date         |-> UsText(Val(b_date)),
                 mileage      |-> b_mi,
                 note         |-> <<"Baseline from schedule rules">>])

\* the pseudo "last event" of car_maintenances.last_event_for_rule
BaselineEvent(rule) ==
  LET b_date == BaselineDate(rule.baseline_date)
      b_mi   == BaselineMileage(rule.baseline_mileage)
  IN  IF b_date = None /\ b_mi = None THEN None
      ELSE Some([service_text |-> <<"(baseline) ">> \o LabelOf(rule, <<"Baseline">>),
                 date         |-> IF b_date # None THEN UsText(Val(b_date)) ELSE NoText,
                 mileage      |-> b_mi,
                 note         |-> <<"Baseline from schedule rules">>])

\* car_maintenances.last_event_for_rule
car_last_event_for_rule(d, rule) ==
  LET h == MatchMask(d, rule)
  IN  IF h # {} THEN Some(RowDict(d[LastSorted(d, h)]))
      ELSE BaselineEvent(rule)

\* ---------------------------------------------------------------- projector

\* str(rule.get("trigger","earliest")).strip().lower()
camry_trigger(rule) == LowerTrigger(StripTrigger(rule.trigger))

\* str(rule.get("trigger", "earliest")).lower()
car_trigger(rule) == LowerTrigger(rule.trigger)

\* camry_project with the mileage_only override of the matched branch left out
camry_project_keeps_date(miles_int, months_int, trigger, l, t) ==
  IF l # None
  THEN LET last_mileage == Val(l).mileage
           last_date    == parse_date_us(Val(l).date)
       IN  [due_mileage |-> IF miles_int > 0 /\ last_mileage # None
                            THEN Some(Val(last_mileage) + ToFloat(miles_int))
                            ELSE None,
            due_date    |-> IF months_int > 0 /\ last_date # None
                            THEN Some(AddMonthsDelta(Val(last_date), months_int))
                            ELSE None]
  ELSE [due_mileage |-> IF miles_int > 0 THEN Some(ToFloat(miles_int)) ELSE None,
        due_date    |-> IF months_int > 0 /\ trigger # "mileage_only"
                        THEN Some(t) ELSE None]

\* camry_project whose never-serviced branch dates the rule whatever the trigger
camry_project_always_dated(miles_int, months_int, trigger, l, t) ==
  IF l # None
  THEN LET last_mileage == Val(l).mileage
           last_date    == parse_date_us(Val(l).date)
           dd == IF months_int > 0 /\ last_date # None
                 THEN Some(AddMonthsDelta(Val(last_date), months_int))
                 ELSE None
       IN  [due_mileage |-> IF miles_int > 0 /\ last_mileage # None
                            THEN Some(Val(last_mileage) + ToFloat(miles_int))
                            ELSE None,
            due_date    |-> IF trigger = "mileage_only" THEN None ELSE dd]
  ELSE [due_mileage |-> IF miles_int > 0 THEN Some(ToFloat(miles_int)) ELSE None,
        due_date    |-> IF months_int > 0 THEN Some(t) ELSE None]

\* camry_maint_app.compute_next_due, the projection of one rule:
\* the locals due_mileage and due_date
camry_project(miles_int, months_int, trigger, l, t) ==
  IF l # None
  THEN LET last_mileage == Val(l).mileage
           last_date    == parse_date_us(Val(l).date)
           dd == IF months_int > 0 /\ last_date # None
                 THEN Some(AddMonthsDelta(Val(last_date), months_int))
                 ELSE None
       IN  [due_mileage |-> IF miles_int > 0 /\ last_mileage # None
                            THEN Some(Val(last_mileage) + ToFloat(miles_int))
                            ELSE None,
            due_date    |-> IF trigger = "mileage_only" THEN None ELSE dd]
  ELSE [due_mileage |-> IF miles_int > 0 THEN Some(ToFloat(miles_int)) ELSE None,
        due_date    |-> IF months_int > 0 /\ trigger # "mileage_only"
                        THEN Some(t) ELSE None]

\* car_project whose never-serviced branch projects no date
car_project_first_time_undated(miles_int, months_int, trigger, l, t) ==
  IF l # None
  THEN LET last_mi   == Val(l).mileage
           last_date == parse_flexible_date(Val(l).date)
       IN  [due_mileage |-> IF miles_int > 0 /\ last_mi # None
                            THEN Some(Val(last_mi) + ToFloat(miles_int))
                            ELSE None,
            due_date    |-> IF months_int > 0 /\ last_date # None
                               /\ trigger # "mileage_only"
                            THEN Some(AddMonthsDelta(Val(last_date), months_int))
                            ELSE None]
  ELSE [due_mileage |-> IF miles_int > 0 THEN Some(ToFloat(miles_int)) ELSE None,
        due_date    |-> None]

\* car_project with the "> 0" tests of the intervals written ">= 0"
car_project_nonneg(miles_int, months_int, trigger, l, t) ==
  IF l # None
  THEN LET last_mi   == Val(l).mileage
           last_date == parse_flexible_date(Val(l).date)
       IN  [due_mileage |-> IF miles_int >= 0 /\ last_mi # None
                            THEN Some(Val(last_mi) + ToFloat(miles_int))
                            ELSE None,
            due_date    |-> IF months_int >= 0 /\ last_date # None
                               /\ trigger # "mileage_only"
                            THEN Some(AddMonthsDelta(Val(last_date), months_int))
                            ELSE None]
  ELSE [due_mileage |-> IF miles_int >= 0 THEN Some(ToFloat(miles_int)) ELSE None,
        due_date    |-> IF months_int >= 0 /\ trigger # "mileage_only"
                        THEN Some(t) ELSE None]

\* car_maintenances.compute_next_due, the projection of one rule
car_project(miles_int, months_int, trigger, l, t) ==
  IF l # None
  THEN LET last_mi   == Val(l).mileage
           last_date == parse_flexible_date(Val(l).date)
       IN  [due_mileage |-> IF miles_int > 0 /\ last_mi # None
                            THEN Some(Val(last_mi) + ToFloat(miles_int))
                            ELSE None,
            due_date    |-> IF months_int > 0 /\ last_date # None
                               /\ trigger # "mileage_only"
                            THEN Some(AddMonthsDelta(Val(last_date), months_int))
                            ELSE None]
  ELSE [due_mileage |-> IF miles_int > 0 THEN Some(ToFloat(miles_int)) ELSE None,
        due_date    |-> IF months_int > 0 /\ trigger # "mileage_only"
                        THEN Some(t) ELSE None]

\* ---------------------------------------------------------------- evaluator

\* miles_until = None if due_mileage is None else int(due_mileage - current_mileage)
MilesUntil(dm, cur) == IF dm = None THEN None ELSE Some(PyInt(Val(dm) - Val(cur)))

\* days_until = None if due_date is None else (due_date - today).days
DaysUntil(dd, t) == IF dd = None THEN None ELSE Some(DaysBetween(Val(dd), t))

\* overdue if either threshold is crossed
Overdue(mu, du) ==
  (mu # None /\ Val(mu) <= 0) \/ (du # None /\ Val(du) <= 0)

\* the status with the thresholds tested strictly
StatusOf_strict(mu, du) ==
  IF (mu # None /\ Val(mu) < 0) \/ (du # None /\ Val(du) < 0)
  THEN "OVERDUE" ELSE "upcoming"

StatusOf(mu, du) == IF Overdue(mu, du) THEN "OVERDUE" ELSE "upcoming"

Sentinel == 999999

\* the urgency metric taken from miles_until whenever there is one
UrgencyMetric_miles_first(mu, du) ==
  IF mu # None THEN Min(Sentinel, Val(mu))
  ELSE IF du # None THEN Min(Sentinel, Val(du)) ELSE Sentinel

\* urgency metric for sorting
UrgencyMetric(mu, du) ==
  LET u1 == IF mu # None THEN Min(Sentinel, Val(mu)) ELSE Sentinel
  IN  IF du # None THEN Min(u1, Val(du)) ELSE u1

\* ---------------------------------------------------------------- one rule

\* one pass of the loop body of compute_next_due; raised is TRUE when the
\* pass ends in an exception (int() of a non-numeric interval, or arithmetic
\* on a missing reference mileage)
EvalRule(a, d, rule, cur, t) ==
  LET mi  == IntOrZero(rule.miles_interval)
      mo  == IntOrZero(rule.months_interval)
      bad == mi = None \/ mo = None
      miles_int  == IF mi = None THEN 0 ELSE Val(mi)
      months_int == IF mo = None THEN 0 ELSE Val(mo)
      trigger == IF a = "camry" THEN camry_trigger(rule) ELSE car_trigger(rule)
      l  == IF a = "camry" THEN camry_last_event_for_rule(d, rule)
            ELSE car_last_event_for_rule(d, rule)
      pr == IF a = "camry" THEN camry_project(miles_int, months_int, trigger, l, t)
            ELSE car_project(miles_int, months_int, trigger, l, t)
      typeErr == pr.due_mileage # None /\ cur = None
      mu == IF typeErr THEN None ELSE MilesUntil(pr.due_mileage, cur)
      du == DaysUntil(pr.due_date, t)
      common ==
        [last_service |-> IF l # None THEN Val(l).service_text
                          ELSE IF a = "camry" THEN <<"(none recorded)">>
                          ELSE <<"(none)">>,
         last_date    |-> IF l # None THEN Val(l).date ELSE NoText,
         last_mileage |-> IF l # None THEN Val(l).mileage ELSE None,
         due_date     |-> IF pr.due_date = None THEN None
                          ELSE Some(IsoText(Val(pr.due_date))),
         miles_until  |-> mu,
         days_until   |-> du,
         status       |-> StatusOf(mu, du)]
      camryEntry ==
        [key |-> rule.key, trigger |-> trigger,
         miles_interval |-> miles_int, months_interval |-> months_int,
         due_mileage |-> IF pr.due_mileage = None THEN None
                         ELSE Some(PyInt(Val(pr.due_mileage))),
         urgency_metric |-> UrgencyMetric(mu, du)]
      carEntry ==
        [label |-> LabelOf(rule, <<"Unnamed">>),
         last_note |-> IF l # None THEN Val(l).note ELSE <<>>,
         due_mileage |-> pr.due_mileage]
  IN  [raised      |-> bad \/ typeErr,
       hits        |-> MatchMask(d, rule),
       last        |-> l,
       due_mileage |-> pr.due_mileage,
       due_date    |-> pr.due_date,
       miles_until |-> mu,
       days_until  |-> du,
       entry       |-> IF a = "camry" THEN common @@ camryEntry
                       ELSE common @@ carEntry]

\* ---------------------------------------------------------------- ranker

\* urgency_key(x): (0 if OVERDUE else 1, urgency_metric)
urgency_key(x) ==
  <<IF x.status = "OVERDUE" THEN 0 ELSE 1, x.urgency_metric>>

\* tuple comparison a < b
KeyLess(a, b) == a[1] < b[1] \/ (a[1] = b[1] /\ a[2] < b[2])

\* InsertByKey that places x before the entries of equal key
RECURSIVE InsertByKey_before_ties(_, _)
InsertByKey_before_ties(s, x) ==
  IF s = <<>> THEN <<x>>
  ELSE IF ~KeyLess(urgency_key(s[Len(s)]), urgency_key(x))
       THEN Append(InsertByKey_before_ties(SubSeq(s, 1, Len(s) - 1), x), s[Len(s)])
       ELSE Append(s, x)

\* x placed after the entries of the sorted list s whose key is not greater
RECURSIVE InsertByKey(_, _)
InsertByKey(s, x) ==
  IF s = <<>> THEN <<x>>
  ELSE IF KeyLess(urgency_key(x), urgency_key(s[Len(s)]))
       THEN Append(InsertByKey(SubSeq(s, 1, Len(s) - 1), x), s[Len(s)])
       ELSE Append(s, x)

\* results.sort(key=urgency_key): list.sort is stable
RECURSIVE SortResults(_)
SortResults(s) ==
  IF s = <<>> THEN <<>>
  ELSE InsertByKey(SortResults(SubSeq(s, 1, Len(s) - 1)), s[Len(s)])

\* ---------------------------------------------------------------- actions

\* App.compute_reminders / App.compute up to the call of compute_next_due:
\* the data file is read and normalised, results = []
Compute ==
  /\ pc = "idle"
  /\ df' = normalize_services(csv)
  /\ results' = <<>>
  /\ i' = 1
  /\ pc' = "loop"
  /\ UNCHANGED <<app, csv, rules, current_mileage, today,
                 hits, last, due_mileage, due_date, miles_until, days_until>>
  /\ UNCHANGED botvars
  /\ UNCHANGED formvars
  /\ UNCHANGED parsevars

\* one pass of "for rule in rules" in compute_next_due
LoopBody ==
  /\ pc = "loop"
  /\ i <= Len(rules)
  /\ LET r == EvalRule(app, df, rules[i], current_mileage, today)
     IN  IF r.raised
         THEN /\ pc' = "raised"
              /\ UNCHANGED <<i, results, hits, last, due_mileage, due_date,
                             miles_until, days_until>>
         ELSE /\ hits' = r.hits
              /\ last' = r.last
              /\ due_mileage' = r.due_mileage
              /\ due_date' = r.due_date
              /\ miles_until' = r.miles_until
              /\ days_until' = r.days_until
              /\ results' = Append(results, r.entry)
              /\ i' = i + 1
              /\ pc' = "loop"
  /\ UNCHANGED <<app, csv, rules, current_mileage, today, df>>
  /\ UNCHANGED botvars
  /\ UNCHANGED formvars
  /\ UNCHANGED parsevars

\* the end of compute_next_due: camry sorts the list, car returns it as built
Return ==
  /\ pc = "loop"
  /\ i > Len(rules)
  /\ results' = IF app = "camry" THEN SortResults(results) ELSE results
  /\ pc' = "done"
  /\ UNCHANGED <<app, csv, rules, current_mileage, today, df, i,
                 hits, last, due_mileage, due_date, miles_until, days_until>>
  /\ UNCHANGED botvars
  /\ UNCHANGED formvars
  /\ UNCHANGED parsevars

Next == Compute \/ LoopBody \/ Return

\* ------------------------------------------------------- maintenance_bot

\* the outcome of a call: a returned value, or an exception
Returned(v) == [raised |-> FALSE, value |-> v]
Raised == [raised |-> TRUE, value |-> None]

\* datetime.MAXYEAR: dt.date(y, mo, d) raises ValueError for a later year
MaxYear == 9999

\* th.get("miles", 500) and th.get("days", 30)
DefaultMiles == 500
DefaultDays == 30

\* "x or 0" and "if x" for an optional int: None and 0 are falsy
Truthy(x) == x # None /\ Val(x) # 0
OrZero(x) == IF Truthy(x) THEN Val(x) ELSE 0

\* parse_date: None for None or "", the date of YYYY-MM-DD text, ValueError
\* from strptime for any other text
bot_parse_date(s) ==
  IF s.fmt = "none" THEN Returned(None)
  ELSE IF s.fmt = "iso" THEN Returned(Some(s.ymd))
  ELSE Raised

\* add_months with every year divisible by four taken as a leap year
bot_add_months_julian(d0, m) ==
  LET y   == d0[1] + ((d0[2] - 1 + m) \div 12)
      mo  == ((d0[2] - 1 + m) % 12) + 1
      dim == <<31, IF y % 4 = 0 THEN 29 ELSE 28,
               31, 30, 31, 30, 31, 31, 30, 31, 30, 31>>[mo]
  IN  IF y > MaxYear THEN Raised
      ELSE Returned(<<y, mo, Min(d0[3], dim)>>)

\* add_months
bot_add_months(d0, m) ==
  LET y   == d0[1] + ((d0[2] - 1 + m) \div 12)
      mo  == ((d0[2] - 1 + m) % 12) + 1
      dim == <<31, IF y % 4 = 0 /\ (y % 100 # 0 \/ y % 400 = 0) THEN 29 ELSE 28,
               31, 30, 31, 30, 31, 31, 30, 31, 30, 31>>[mo]
  IN  IF y > MaxYear THEN Raised
      ELSE Returned(<<y, mo, Min(d0[3], dim)>>)

\* the sort key (x["date"], x["miles"]) of max(): ISO text compares as the
\* date does
BotKeyLess(x, z) ==
  \/ Ordinal(x.date.ymd) < Ordinal(z.date.ymd)
  \/ /\ x.date.ymd = z.date.ymd
     /\ OrZero(x.miles) < OrZero(z.miles)

\* max(s, key=...) over the entries of s at the indices idx: the first of
\* the entries with the greatest key; None for no entry
BotMax(s, idx) ==
  IF idx = {} THEN None
  ELSE Some(s[CHOOSE j \in idx :
                \A n \in idx :
                  \/ BotKeyLess(s[n], s[j])
                  \/ (~BotKeyLess(s[j], s[n]) /\ j <= n)])

\* latest_odo
latest_odo(d) == BotMax(d.odometer, 1..Len(d.odometer))

\* last_service_for_task
last_service_for_task(d, name) ==
  BotMax(d.services,
         {n \in 1..Len(d.services) : Lower(d.services[n].task) = Lower(name)})

\* overdue = (miles_left is not None and miles_left<0) or (days_left ...<0)
bot_overdue(miles_left, days_left) ==
  \/ (miles_left # None /\ Val(miles_left) < 0)
  \/ (days_left # None /\ Val(days_left) < 0)

\* due_soon
bot_due_soon(overdue, miles_left, days_left, th) ==
  IF overdue THEN FALSE
  ELSE \/ (miles_left # None /\ Val(miles_left) <=
             (IF th.miles # None THEN Val(th.miles) ELSE DefaultMiles))
       \/ (days_left # None /\ Val(days_left) <=
             (IF th.days # None THEN Val(th.days) ELSE DefaultDays))

\* compute(t, data, ref_mi, ref_dt, th): the locals and the row returned, or
\* the exception of parse_date or add_months
bot_compute(t, d, rmi, rdt, th) ==
  LET l    == last_service_for_task(d, t.name)
      ami  == IF l # None THEN OrZero(Val(l).miles)
              ELSE (IF t.initial_miles # None THEN Val(t.initial_miles) ELSE 0)
      pd   == bot_parse_date(IF l # None THEN Val(l).date ELSE t.initial_date)
      adt  == IF pd.value # None THEN Val(pd.value) ELSE rdt
      nmi  == IF Truthy(t.interval_miles)
              THEN Some(ami + OrZero(t.interval_miles)) ELSE None
      am   == IF Truthy(t.interval_months)
              THEN bot_add_months(adt, Val(t.interval_months))
              ELSE Returned(None)
      ndt  == IF Truthy(t.interval_months) /\ ~am.raised
              THEN Some(am.value) ELSE None
      miles_left == IF nmi = None \/ rmi = None THEN None
                    ELSE Some(Val(nmi) - Val(rmi))
      days_left  == IF ndt = None THEN None
                    ELSE Some(DaysBetween(Val(ndt), rdt))
      overdue    == bot_overdue(miles_left, days_left)
  IN  [raised  |-> pd.raised \/ am.raised,
       parsed  |-> ~pd.raised,
       a_mi    |-> Some(ami),
       a_dt    |-> Some(adt),
       next_mi |-> nmi,
       next_dt |-> ndt,
       row     |-> [task           |-> t.name,
                    next_due_miles |-> nmi,
                    next_due_date  |-> IF ndt # None THEN IsoText(Val(ndt))
                                       ELSE NoText,
                    miles_left     |-> miles_left,
                    days_left      |-> days_left,
                    overdue        |-> overdue,
                    due_soon       |-> bot_due_soon(overdue, miles_left,
                                                    days_left, th)]]

\* build_rows up to the list comprehension: the reference mileage is the
\* argument or the latest odometer reading, the reference date the argument
\* or today
BuildRows ==
  /\ bot_pc = "idle"
  /\ LET odo == latest_odo(data)
         pd  == bot_parse_date(ref_date)
     IN  /\ ref_mi' = IF Truthy(ref_miles) THEN ref_miles
                      ELSE IF odo # None THEN Val(odo).miles ELSE None
         /\ IF ref_date.fmt = "none"
            THEN ref_dt' = today /\ bot_pc' = "loop"
            ELSE IF pd.raised
            THEN ref_dt' = ref_dt /\ bot_pc' = "raised"
            ELSE ref_dt' = Val(pd.value) /\ bot_pc' = "loop"
  /\ bot_i' = 1
  /\ bot_rows' = <<>>
  /\ UNCHANGED <<cfg, data, ref_miles, ref_date, a_mi, a_dt, next_mi, next_dt>>
  /\ UNCHANGED <<appvars, today>>
  /\ UNCHANGED formvars
  /\ UNCHANGED parsevars

\* compute for the next task of cfg["tasks"]
BotCompute ==
  /\ bot_pc = "loop"
  /\ bot_i <= Len(cfg.tasks)
  /\ LET r == bot_compute(cfg.tasks[bot_i], data, ref_mi, ref_dt, cfg.thresholds)
     IN  /\ a_mi' = r.a_mi
         /\ a_dt' = IF r.parsed THEN r.a_dt ELSE a_dt
         /\ next_mi' = IF r.parsed THEN r.next_mi ELSE next_mi
         /\ next_dt' = IF r.raised THEN next_dt ELSE r.next_dt
         /\ IF r.raised
            THEN bot_pc' = "raised" /\ UNCHANGED <<bot_i, bot_rows>>
            ELSE /\ bot_rows' = Append(bot_rows, r.row)
                 /\ bot_i' = bot_i + 1
                 /\ bot_pc' = "loop"
  /\ UNCHANGED <<cfg, data, ref_miles, ref_date, ref_mi, ref_dt>>
  /\ UNCHANGED <<appvars, today>>
  /\ UNCHANGED formvars
  /\ UNCHANGED parsevars

\* the list of rows is complete and returned
BuildRowsReturn ==
  /\ bot_pc = "loop"
  /\ bot_i > Len(cfg.tasks)
  /\ bot_pc' = "done"
  /\ UNCHANGED <<cfg, data, ref_miles, ref_date, ref_mi, ref_dt, bot_i,
                 bot_rows, a_mi, a_dt, next_mi, next_dt>>
  /\ UNCHANGED <<appvars, today>>
  /\ UNCHANGED formvars
  /\ UNCHANGED parsevars

NextBot == BuildRows \/ BotCompute \/ BuildRowsReturn

\* ------------------------------------------------------------ add_record

\* dates typed into the date field and stored in the data file
D1 == <<2023, 1, 1>>
D2 == <<2022, 8, 31>>

\* str.strip on a text of one-character strings
Strip(s) ==
  LET keep == {k \in 1..Len(s) : s[k] # " "}
  IN  IF keep = {} THEN <<>>
      ELSE SubSeq(s, CHOOSE k \in keep : \A n \in keep : k <= n,
                     CHOOSE k \in keep : \A n \in keep : k >= n)

\* the columns add_record needs, and those car_maintenances writes
RequiredColumns == {"date", "mileage", "service"}
CarColumns == {"date", "mileage", "service", "note"}

\* a record with every cell empty
BlankRow ==
  [date |-> NoText, mileage |-> NoRaw, service |-> <<>>, note |-> <<>>,
   cost |-> <<>>]

\* cell texts that pd.read_csv reads as missing
NaTexts == {<<>>, <<"N", "A">>}

\* read_csv then to_csv of a text cell: a missing value is written empty
RewriteText(s) == IF s \in NaTexts THEN <<>> ELSE s

\* read_csv then to_csv of a cell of the mileage column once a float has
\* been appended to it: the column is float64, an integer n is written n.0
RewriteMileage(raw) ==
  IF raw.t = "int" THEN NumRaw(ToFloat(raw.v))
  ELSE IF raw.t = "num" THEN raw
  ELSE NoRaw

\* a stored record read by read_csv and written back by to_csv
RewriteRow(r) ==
  [date    |-> r.date,
   mileage |-> RewriteMileage(r.mileage),
   service |-> RewriteText(r.service),
   note    |-> RewriteText(r.note),
   cost    |-> RewriteText(r.cost)]

\* to_csv of the frame restricted to the columns of car_maintenances, the
\* note column created empty when the file had none
CarRow(r) == [RewriteRow(r) EXCEPT !.cost = <<>>]

\* the checks of add_record on the stripped entry fields: empty field, date
\* not MM/DD/YYYY, float(m) raising
FieldsRejected(d, m, s) ==
  \/ d.fmt = "none" \/ m.t = "none" \/ s = <<>>
  \/ parse_date_us(d) = None
  \/ m.t = "text"

\* float(m) of an accepted mileage field
FieldMileage(m) == IF m.t = "int" THEN ToFloat(m.v) ELSE m.v

\* camry_maint_app.App.add_record: the data file and which fields are reset
camry_add_record(f, d, m, s) ==
  LET ensured == IF f.exists THEN f
                 ELSE [exists |-> TRUE, columns |-> RequiredColumns, rows |-> <<>>]
      new == [BlankRow EXCEPT !.date = d,
                              !.mileage = NumRaw(FieldMileage(m)),
                              !.service = RewriteText(s)]
  IN  IF FieldsRejected(d, m, s) THEN [file |-> f, saved |-> FALSE]
      ELSE IF ~(RequiredColumns \subseteq ensured.columns)
      THEN [file |-> ensured, saved |-> FALSE]
      ELSE [file  |-> [exists  |-> TRUE,
                       columns |-> ensured.columns,
                       rows    |-> Append([k \in 1..Len(ensured.rows) |->
                                             RewriteRow(ensured.rows[k])], new)],
            saved |-> TRUE]

\* car_maintenances.App.add_record
car_add_record(f, d, m, s, n) ==
  LET new == [BlankRow EXCEPT !.date = d,
                              !.mileage = NumRaw(FieldMileage(m)),
                              !.service = RewriteText(s),
                              !.note = RewriteText(n)]
  IN  IF FieldsRejected(d, m, s) THEN [file |-> f, saved |-> FALSE]
      ELSE IF f.exists /\ ~(RequiredColumns \subseteq f.columns)
      THEN [file |-> f, saved |-> FALSE]
      ELSE [file  |-> [exists  |-> TRUE,
                       columns |-> CarColumns,
                       rows    |-> Append([k \in 1..Len(f.rows) |->
                                             CarRow(f.rows[k])], new)],
            saved |-> TRUE]

\* the most records the data file is let grow to
MaxRecords == 2

\* the user edits the entry fields (camry_maint_app has no note field)
TypeFields ==
  /\ date_var' \in {NoText, UsText(D1), IsoText(D2)}
  /\ rec_miles_var' \in {NoRaw, TextRaw, IntRaw(7), NumRaw(15)}
  /\ service_var' \in {<<>>, <<" ">>, <<"o", " ">>}
  /\ note_var' \in IF app = "camry" THEN {<<>>} ELSE {<<>>, <<"n">>}
  /\ UNCHANGED <<data_file, appvars, today, botvars>>
  /\ UNCHANGED parsevars

\* App.add_record, the handler of the "Add Record" button
AddRecord ==
  /\ Len(data_file.rows) < MaxRecords
  /\ LET r == IF app = "camry"
              THEN camry_add_record(data_file, date_var, rec_miles_var,
                                    Strip(service_var))
              ELSE car_add_record(data_file, date_var, rec_miles_var,
                                  Strip(service_var), Strip(note_var))
     IN  /\ data_file' = r.file
         /\ rec_miles_var' = IF r.saved THEN NoRaw ELSE rec_miles_var
         /\ service_var' = IF r.saved THEN <<>> ELSE service_var
         /\ note_var' = IF r.saved /\ app = "car" THEN <<>> ELSE note_var
  /\ UNCHANGED <<date_var, appvars, today, botvars>>
  /\ UNCHANGED parsevars

NextForm == TypeFields \/ AddRecord

\* --------------------------------------------------------- parse_cardata

\* the characters of the task texts in code-point order
Alphabet ==
  <<" ", "&", "I", "L", "N", "O", "a", "b", "c", "d", "e", "f", "g", "h",
    "i", "k", "l", "m", "n", "o", "p", "r", "s", "t", "u", "x">>

CodeOf(c) == CHOOSE k \in 1..Len(Alphabet) : Alphabet[k] = c

\* a < b for str
TextLess(a, b) ==
  \E k \in 1..Len(b) :
    /\ \A j \in 1..(k - 1) : j <= Len(a) /\ a[j] = b[j]
    /\ k = Len(a) + 1 \/ (k <= Len(a) /\ CodeOf(a[k]) < CodeOf(b[k]))

\* a < b for dates written YYYY-MM-DD
IsoLess(a, b) ==
  \/ a[1] < b[1]
  \/ a[1] = b[1] /\ a[2] < b[2]
  \/ a[1] = b[1] /\ a[2] = b[2] /\ a[3] < b[3]

\* re.sub(r'\D', '', s): a token is a sequence of digits 0..9, any other
\* character held as -1
RECURSIVE DigitsOnly(_)
DigitsOnly(tok) ==
  IF tok = <<>> THEN <<>>
  ELSE IF tok[1] \in 0..9 THEN <<tok[1]>> \o DigitsOnly(Tail(tok))
  ELSE DigitsOnly(Tail(tok))

\* int() of a sequence of digits
RECURSIVE IntOfDigits(_)
IntOfDigits(ds) ==
  IF ds = <<>> THEN 0
  ELSE (IntOfDigits(SubSeq(ds, 1, Len(ds) - 1)) * 10) + ds[Len(ds)]

\* parse_m_d_y_token: the date written YYYY-MM-DD as <<y, m, d>>, or None
parse_m_d_y_token(val) ==
  LET ds == DigitsOnly(val)
      n  == Len(ds)
      mm == IF n = 8 THEN IntOfDigits(SubSeq(ds, 1, 2)) ELSE IntOfDigits(SubSeq(ds, 1, 1))
      dd == IF n = 8 THEN IntOfDigits(SubSeq(ds, 3, 4)) ELSE IntOfDigits(SubSeq(ds, 2, 3))
      yy == IF n = 8 THEN IntOfDigits(SubSeq(ds, 5, 8)) ELSE IntOfDigits(SubSeq(ds, 4, 7))
  IN  IF n \notin {7, 8} THEN None
      ELSE IF ~(1 <= mm /\ mm <= 12 /\ 1 <= dd /\ dd <= 31 /\ 1900 <= yy /\ yy <= 2100)
      THEN None
      ELSE Some(<<yy, mm, dd>>)

\* runs of blanks inside a stripped text become one blank
RECURSIVE Collapse(_)
Collapse(u) ==
  IF u = <<>> THEN <<>>
  ELSE IF u[1] = " " /\ u[2] = " " THEN Collapse(Tail(u))
  ELSE <<u[1]>> \o Collapse(Tail(u))

\* " ".join(s.split())
JoinSplit(t) == CHOOSE r \in {Collapse(u) : u \in {Strip(t)}} : TRUE

\* str(tasks.iloc[i]) normalised: a missing cell reads "nan"
TaskText(cell) == IF cell = None THEN <<"n", "a", "n">> ELSE JoinSplit(Val(cell))

\* the subsequence of s at the indices in idx
RECURSIVE Filter(_, _)
Filter(s, idx) ==
  IF s = <<>> THEN <<>>
  ELSE IF Len(s) \in idx
  THEN Append(Filter(SubSeq(s, 1, Len(s) - 1), idx), s[Len(s)])
  ELSE Filter(SubSeq(s, 1, Len(s) - 1), idx)

\* the rows of cardata.csv main keeps (lines 108-115), the date, miles, task
\* and notes columns being those main detects
Services(rows) ==
  CHOOSE r \in
    {Filter(parsed, {k \in 1..Len(parsed) :
                       \/ parsed[k].task # <<>>
                       \/ parsed[k].miles # None
                       \/ parsed[k].date # None}) :
       parsed \in {[k \in 1..Len(rows) |->
                      [task  |-> TaskText(rows[k].task),
                       miles |-> rows[k].miles,
                       date  |-> parse_m_d_y_token(rows[k].date),
                       notes |-> Strip(rows[k].notes)]] \o <<>>}} :
    TRUE

\* DataFrame.drop_duplicates: the first of equal rows is kept
RECURSIVE DropDuplicates(_)
DropDuplicates(s) ==
  IF s = <<>> THEN <<>>
  ELSE LET init == DropDuplicates(SubSeq(s, 1, Len(s) - 1))
           x    == s[Len(s)]
       IN  IF \E k \in 1..Len(init) : init[k] = x THEN init ELSE Append(init, x)

\* order of the keys (date, miles), a missing value after every present one
DateMilesLess(a, b) ==
  \/ a.date # None /\ b.date = None
  \/ a.date # None /\ b.date # None /\ IsoLess(Val(a.date), Val(b.date))
  \/ /\ a.date = b.date
     /\ \/ a.miles # None /\ b.miles = None
        \/ a.miles # None /\ b.miles # None /\ Val(a.miles) < Val(b.miles)

\* order of the keys (task, date, miles)
SrvLess(a, b) ==
  \/ TextLess(a.task, b.task)
  \/ a.task = b.task /\ DateMilesLess(a, b)

\* sort_values(["task","date","miles"], na_position="last"), equal keys in
\* their order
RECURSIVE SortSrv(_)
SortSrv(s) ==
  IF s = <<>> THEN <<>>
  ELSE LET init == SortSrv(SubSeq(s, 1, Len(s) - 1))
           x    == s[Len(s)]
           pos  == Cardinality({k \in 1..Len(init) : ~SrvLess(x, init[k])})
       IN  SubSeq(init, 1, pos) \o <<x>> \o SubSeq(init, pos + 1, Len(init))

\* sort_values(["date","miles"])
RECURSIVE SortOdo(_)
SortOdo(s) ==
  IF s = <<>> THEN <<>>
  ELSE LET init == SortOdo(SubSeq(s, 1, Len(s) - 1))
           x    == s[Len(s)]
           pos  == Cardinality({k \in 1..Len(init) : ~DateMilesLess(x, init[k])})
       IN  SubSeq(init, 1, pos) \o <<x>> \o SubSeq(init, pos + 1, Len(init))

\* df_srv (line 117) of the services list; each intermediate frame is
\* bound once, as the only element of a set
DfSrv(services) ==
  CHOOSE r \in {SortSrv(dd) : dd \in {DropDuplicates(services)}} : TRUE

\* the columns date and miles of a frame
DateMiles(s) == [k \in 1..Len(s) |-> [date |-> s[k].date, miles |-> s[k].miles]]

\* df_odo (line 118)
DfOdo(srv) ==
  CHOOSE r \in
    {SortOdo(dd) :
       dd \in {DropDuplicates(DateMiles(full)) :
                 full \in {Filter(srv, {k \in 1..Len(srv) :
                                           srv[k].date # None /\ srv[k].miles # None})}}} :
    TRUE

\* default_map, in the order of the dict
default_map ==
  <<<<<<"e", "n", "g", "i", "n", "e", " ", "o", "i", "l">>, 5000, 6>>,
     <<<<"e", "n", "g", "i", "n", "e", " ", "o", "i", "l", " ", "&", " ", "f", "i", "l", "t", "e", "r">>, 5000, 6>>,
     <<<<"o", "i", "l", " ", "c", "h", "a", "n", "g", "e">>, 5000, 6>>,
     <<<<"t", "i", "r", "e", " ", "r", "o", "t", "a", "t", "i", "o", "n">>, 5000, 6>>,
     <<<<"c", "a", "b", "i", "n", " ", "a", "i", "r", " ", "f", "i", "l", "t", "e", "r">>, 15000, 12>>,
     <<<<"e", "n", "g", "i", "n", "e", " ", "a", "i", "r", " ", "f", "i", "l", "t", "e", "r">>, 30000, 24>>,
     <<<<"b", "r", "a", "k", "e", " ", "i", "n", "s", "p", "e", "c", "t", "i", "o", "n">>, 5000, 6>>,
     <<<<"b", "r", "a", "k", "e", " ", "f", "l", "u", "i", "d">>, 30000, 36>>,
     <<<<"c", "o", "o", "l", "a", "n", "t">>, 100000, 120>>,
     <<<<"t", "r", "a", "n", "s", "m", "i", "s", "s", "i", "o", "n", " ", "f", "l", "u", "i", "d">>, 60000, 72>>,
     <<<<"s", "p", "a", "r", "k", " ", "p", "l", "u", "g">>, 120000, 120>>>>

\* task_interval_guess
task_interval_guess(t) ==
  CHOOSE g \in
    {IF matching = {} THEN <<None, Some(12)>>
     ELSE LET k == CHOOSE k \in matching : \A n \in matching : k <= n
          IN  <<Some(default_map[k][2]), Some(default_map[k][3])>> :
       matching \in {{k \in 1..Len(default_map) : Contains(tl, default_map[k][1])} :
                      tl \in {Lower(t)}}} :
    TRUE

\* sorted(...) of a set of texts
RECURSIVE SortedTexts(_)
SortedTexts(S) ==
  IF S = {} THEN <<>>
  ELSE LET least == CHOOSE x \in S : \A z \in S : z = x \/ TextLess(x, z)
       IN  <<least>> \o SortedTexts(S \ {least})

\* one entry of tasks_cfg (lines 132-138)
TaskCfg(srv, t, td) ==
  CHOOSE r \in
    {[name            |-> t,
      interval_miles  |-> task_interval_guess(t)[1],
      interval_months |-> task_interval_guess(t)[2],
      initial_miles   |-> IF tail # <<>> /\ tail[Len(tail)].miles # None
                          THEN Val(tail[Len(tail)].miles) ELSE 0,
      initial_date    |-> IF tail # <<>> THEN Val(tail[Len(tail)].date) ELSE td] :
       tail \in {SortOdo(dated) :
                   dated \in {Filter(srv, {k \in 1..Len(srv) :
                                             srv[k].task = t /\ srv[k].date # None})}}} :
    TRUE

\* tasks_cfg (lines 130-138)
TasksCfg(srv, td) ==
  CHOOSE r \in
    {[k \in 1..Len(names) |-> TaskCfg(srv, names[k], td)] :
       names \in {SortedTexts({srv[k].task : k \in 1..Len(srv)} \ {<<>>})}} :
    TRUE

\* the names bound in the module when main runs (lines 20-33 and the defs)
ModuleNames ==
  {"argparse", "re", "json", "subprocess", "shutil", "Path", "date", "pd",
   "yaml", "REPO", "CSV_PATH", "DATA_JSON", "CFG_YAML", "parse_m_d_y_token",
   "guess_cols", "main"}

\* the values datetime.now().strftime("%Y%m%d_%H%M%S") can take
Timestamps == {"20230301_120000", "20230301_120001"}

\* the content main writes to maintenance_data.json
DataJson(odo, srv) == [odometer |-> odo, services |-> srv]

\* the content main writes to maintenance_config.yaml
CfgYaml(tc) ==
  [vehicle    |-> [year |-> 2018, make |-> "Toyota", model |-> "Camry", vin |-> ""],
   thresholds |-> [miles |-> 500, days |-> 30],
   tasks      |-> tc]

\* the folders of the checks: cardata.csv absent or of up to MaxCsvRows
\* rows, outputs absent or left by an earlier run

MaxCsvRows == 2

CsvRows ==
  [date  : {<<1, 0, 1, 2, 0, 2, 3>>, <<0, 2, -1, 3, 1, -1, 2, 0, 2, 3>>, <<1, 3>>},
   miles : {None, Some(10)},
   task  : {None, Some(<<>>), Some(<<"O", "i", "l", " ", " ", "c", "h", "a", "n", "g", "e", " ">>)},
   notes : {<<>>}]

OldDataJson == DataJson(<<>>, <<>>)
OldCfgYaml == CfgYaml(<<>>)

Folders ==
  {[csv |-> c, data_json |-> j, cfg_yaml |-> y, log |-> <<>>] :
     c \in {None} \cup {Some(r) : r \in UNION {[1..k -> CsvRows] : k \in 0..MaxCsvRows}},
     j \in {None, Some(OldDataJson)}, y \in {None, Some(OldCfgYaml)}}

\* python parse_cardata.py [--dry-run] is run in a folder that holds
\* cardata.csv or not, and outputs of an earlier run or not
Invoke ==
  /\ main_pc = "idle"
  /\ args' \in [dry_run : BOOLEAN]
  /\ fs' \in Folders
  /\ main_pc' = "start"
  /\ UNCHANGED <<df_srv, df_odo, tasks_cfg>>
  /\ UNCHANGED <<appvars, today, botvars, formvars>>

\* lines 78-146: SystemExit without cardata.csv, KeyError from sort_values
\* on the column-less frame of an empty services list, otherwise the frames
\* and the configuration are built and the summary is printed
ParseCsv ==
  /\ main_pc = "start"
  /\ IF fs.csv = None
     THEN /\ main_pc' = "exit"
          /\ UNCHANGED <<df_srv, df_odo, tasks_cfg>>
     ELSE \E services \in {Services(Val(fs.csv))} :
            IF services = <<>>
            THEN /\ main_pc' = "raised"
                 /\ UNCHANGED <<df_srv, df_odo, tasks_cfg>>
            ELSE /\ \E srv \in {DfSrv(services)} :
                      /\ df_srv' = srv
                      /\ df_odo' = DfOdo(srv)
                      /\ tasks_cfg' = TasksCfg(srv, today)
                 /\ main_pc' = "parsed"
  /\ UNCHANGED <<args, fs>>
  /\ UNCHANGED <<appvars, today, botvars, formvars>>

\* lines 148-150: --dry-run returns with nothing written
DryRun ==
  /\ main_pc = "parsed"
  /\ args.dry_run
  /\ main_pc' = "done"
  /\ UNCHANGED <<args, fs, df_srv, df_odo, tasks_cfg>>
  /\ UNCHANGED <<appvars, today, botvars, formvars>>

\* lines 153-177: the timestamp, the backups of existing outputs, the two
\* writes; the name datetime is looked up at line 153 and NameError is
\* raised if the module does not bind it (the git steps change no file of
\* the model)
WriteOutputs ==
  /\ main_pc = "parsed"
  /\ ~args.dry_run
  /\ IF "datetime" \notin ModuleNames
     THEN /\ main_pc' = "raised"
          /\ fs' = fs
     ELSE /\ main_pc' = "done"
          /\ \E ts \in Timestamps :
               fs' = [csv       |-> fs.csv,
                      data_json |-> Some(DataJson(df_odo, df_srv)),
                      cfg_yaml  |-> Some(CfgYaml(tasks_cfg)),
                      log       |-> fs.log
                                    \o (IF fs.data_json # None
                                        THEN <<[op |-> "copy", file |-> "data", to |-> ts]>>
                                        ELSE <<>>)
                                    \o (IF fs.cfg_yaml # None
                                        THEN <<[op |-> "copy", file |-> "cfg", to |-> ts]>>
                                        ELSE <<>>)
                                    \o <<[op |-> "write", file |-> "data", to |-> ""],
                                         [op |-> "write", file |-> "cfg", to |-> ""]>>]
  /\ UNCHANGED <<args, df_srv, df_odo, tasks_cfg>>
  /\ UNCHANGED <<appvars, today, botvars, formvars>>

NextParse == Invoke \/ ParseCsv \/ DryRun \/ WriteOutputs

\* ---------------------------------------------------------------- inputs

Apps == {"camry", "car"}

SeqsUpTo(S, n) == UNION {[1..k -> S] : k \in 0..n}

Names == <<"r1", "r2", "r3", "r4", "r5", "r6">>

\* rule bodies given their keys in definition order
Keyed(bodies) ==
  [k \in 1..Len(bodies) |->
     [bodies[k] EXCEPT !.key = Some(<<Names[k]>>), !.label = Some(<<Names[k]>>)]]

Today0 == <<2023, 3, 1>>

\* maintenance_bot before build_rows
BotLocals0 ==
  /\ bot_pc = "idle"
  /\ ref_mi = None
  /\ ref_dt = <<1, 1, 1>>
  /\ bot_i = 1
  /\ bot_rows = <<>>
  /\ a_mi = None
  /\ a_dt = None
  /\ next_mi = None
  /\ next_dt = None

\* maintenance_bot with no configuration and no data, not invoked
BotOff ==
  /\ cfg = [tasks |-> <<>>, thresholds |-> [miles |-> None, days |-> None]]
  /\ data = [odometer |-> <<>>, services |-> <<>>]
  /\ ref_miles = None
  /\ ref_date = NoText
  /\ BotLocals0

\* no data file, empty entry fields
FormOff ==
  /\ data_file = [exists |-> FALSE, columns |-> {}, rows |-> <<>>]
  /\ date_var = NoText
  /\ rec_miles_var = NoRaw
  /\ service_var = <<>>
  /\ note_var = <<>>

\* parse_cardata not run: no cardata.csv, no outputs
ParseLocals0 ==
  /\ main_pc = "idle"
  /\ df_srv = <<>>
  /\ df_odo = <<>>
  /\ tasks_cfg = <<>>

ParseOff ==
  /\ args = [dry_run |-> FALSE]
  /\ fs = [csv |-> None, data_json |-> None, cfg_yaml |-> None, log |-> <<>>]
  /\ ParseLocals0

Locals0 ==
  /\ BotOff
  /\ FormOff
  /\ ParseOff
  /\ pc = "idle"
  /\ df = <<>>
  /\ i = 1
  /\ results = <<>>
  /\ hits = {}
  /\ last = None
  /\ due_mileage = None
  /\ due_date = None
  /\ miles_until = None
  /\ days_until = None

\* --- inputs of the projection and status checks: one rule, rich intervals

MaxDueEvents == 1

DueEvents ==
  [date    : {UsText(D1), IsoText(D2), BadText},
   mileage : {None, Some(4), Some(5)},
   service : {<<"o">>},
   note    : {<<>>}]

DueRules ==
  [key              : {None},
   label            : {None},
   match            : {<< <<"o">> >>},
   miles_interval   : {NoRaw, IntRaw(0), IntRaw(-1), IntRaw(2)},
   months_interval  : {NoRaw, IntRaw(-1), IntRaw(6)},
   trigger          : {"earliest", "mileage_only", " MILEAGE_ONLY "},
   baseline_date    : {NoText, UsText(D2), BadText},
   baseline_mileage : {NoRaw, NumRaw(5)},
   note             : {<<>>}]

Init ==
  /\ app \in Apps
  /\ csv \in SeqsUpTo(DueEvents, MaxDueEvents)
  /\ rules \in {Keyed(<<b>>) : b \in DueRules}
  /\ current_mileage \in {Some(8), Some(9)}
  /\ today = Today0
  /\ Locals0

Spec == Init /\ [][Next]_vars

\* --- inputs of the matcher checks: one rule, rich history and baselines
\* (camry_maint_app reads no baseline, so its rules carry none)

MaxEvents == 2

MatchEvents ==
  [date    : {UsText(D1), UsText(D2), BadText},
   mileage : {None, Some(4), Some(5)},
   service : {<<"O", "i">>, <<"x">>},
   note    : {<<>>}]

Baselines ==
  { <<NoText, NoRaw>>, <<UsText(D2), NoRaw>>, <<IsoText(D1), NumRaw(5)>>,
    <<BadText, NoRaw>>, <<BadText, TextRaw>>, <<NoText, IntRaw(3)>> }

MatchRules ==
  { [key |-> None, label |-> None, match |-> m,
     miles_interval |-> IntRaw(2), months_interval |-> IntRaw(6),
     trigger |-> "earliest",
     baseline_date |-> b[1], baseline_mileage |-> b[2], note |-> <<>>] :
    m \in { <<>>, << <<"o">> >>, << <<"O">> >>, << <<"l">>, <<"o", "i">> >> },
    b \in Baselines }

InitMatch ==
  /\ app \in Apps
  /\ csv \in SeqsUpTo(MatchEvents, MaxEvents)
  /\ rules \in {Keyed(<<b>>) : b \in MatchRules}
  /\ app = "camry" => rules[1].baseline_date = NoText /\ rules[1].baseline_mileage = NoRaw
  /\ current_mileage = Some(8)
  /\ today = Today0
  /\ Locals0

SpecMatch == InitMatch /\ [][Next]_vars

\* --- inputs of the ranking checks: several rules, plain history

MaxRules == 3

D3 == <<2023, 7, 1>>

RankRules ==
  [key              : {None},
   label            : {None},
   match            : {<< <<"o">> >>},
   miles_interval   : {IntRaw(0), IntRaw(2), IntRaw(3)},
   months_interval  : {NoRaw, IntRaw(6)},
   trigger          : {"earliest"},
   baseline_date    : {NoText},
   baseline_mileage : {NoRaw},
   note             : {<<>>}]

InitRank ==
  /\ app \in Apps
  /\ csv \in { <<>>, <<[date |-> UsText(D1), mileage |-> Some(4),
                        service |-> <<"o">>, note |-> <<>>]>> }
  /\ rules \in {Keyed(s) : s \in SeqsUpTo(RankRules, MaxRules)}
  /\ current_mileage \in {Some(8), Some(9), Some(12)}
  /\ today \in {Today0, D3}
  /\ Locals0

SpecRank == InitRank /\ [][Next]_vars

\* --- inputs of the worked scenarios: the oil-change history of the
\* specification's examples and rules with extreme or no intervals

MaxScenRules == 2

Text_oil == <<"o", "i", "l">>
Text_oil_change == <<"o", "i", "l", " ", "c", "h", "a", "n", "g", "e">>

ScenRule(m, miles, months) ==
  [key |-> None, label |-> None, match |-> m,
   miles_interval |-> miles, months_interval |-> months,
   trigger |-> "earliest",
   baseline_date |-> NoText, baseline_mileage |-> NoRaw, note |-> <<>>]

OilRule == ScenRule(<<Text_oil>>, IntRaw(5000), IntRaw(6))

ScenRules ==
  { OilRule,
    ScenRule(<< <<"x">> >>, IntRaw(30000), IntRaw(0)),
    ScenRule(<< <<"x">> >>, IntRaw(1500000), NoRaw),
    ScenRule(<< <<"x">> >>, NoRaw, NoRaw) }

InitScen ==
  /\ app \in Apps
  /\ csv = <<[date |-> UsText(D1), mileage |-> Some(ToFloat(10000)),
              service |-> Text_oil_change, note |-> <<>>]>>
  /\ rules \in {Keyed(s) : s \in SeqsUpTo(ScenRules, MaxScenRules) \ {<<>>}}
  /\ current_mileage \in {Some(ToFloat(m)) : m \in {0, 5000, 14000, 15500}}
  /\ today \in {Today0, <<2023, 7, 15>>}
  /\ Locals0

SpecScen == InitScen /\ [][Next]_vars

\* --- inputs of the error-handling checks: malformed intervals, a missing
\* reference mileage, histories mixing date formats and missing mileage

MaxEdgeEvents == 2
MaxEdgeRules == 2

EdgeEvents ==
  [date    : {UsText(D1), IsoText(D2), BadText},
   mileage : {None, Some(5)},
   service : {<<"o">>},
   note    : {<<>>}]

EdgeRule(miles, months) ==
  [key |-> None, label |-> None, match |-> << <<"o">> >>,
   miles_interval |-> miles, months_interval |-> months,
   trigger |-> "earliest",
   baseline_date |-> NoText, baseline_mileage |-> NoRaw, note |-> <<>>]

EdgeRules ==
  { EdgeRule(IntRaw(2), IntRaw(6)),
    EdgeRule(TextRaw, IntRaw(6)),
    EdgeRule(IntRaw(-1), IntRaw(6)),
    EdgeRule(IntRaw(2), TextRaw),
    EdgeRule(IntRaw(2), IntRaw(-1)) }

InitEdge ==
  /\ app \in Apps
  /\ csv \in SeqsUpTo(EdgeEvents, MaxEdgeEvents)
  /\ rules \in {Keyed(s) : s \in SeqsUpTo(EdgeRules, MaxEdgeRules) \ {<<>>}}
  /\ current_mileage \in {None, Some(9)}
  /\ today = Today0
  /\ Locals0

SpecEdge == InitEdge /\ [][Next]_vars

\* --- inputs of the maintenance_bot checks: one task, anchors at month ends
\* of ordinary, leap, century and last representable years

MaxAddMonths == 13

BotDates ==
  {<<yy, mm, dd>> : yy \in {2000, 2023, 2100, 9999}, mm \in {1, 12},
                    dd \in {28, 31}}

RefDay == <<2023, 2, 28>>

BotTasks ==
  [name            : {Text_oil},
   interval_miles  : {None, Some(5)},
   interval_months : {None} \cup {Some(n) : n \in 1..MaxAddMonths},
   initial_miles   : {None},
   initial_date    : {NoText} \cup {IsoText(d) : d \in BotDates}]

BotService(task, d, miles) == [task |-> task, date |-> IsoText(d), miles |-> Some(miles)]

BotHistories ==
  { <<>>,
    <<BotService(<<"O", "i", "l">>, <<2023, 1, 28>>, 10)>>,
    <<BotService(<<"x">>, <<2023, 2, 1>>, 20),
      BotService(<<"o", "i", "l">>, <<2022, 8, 31>>, 900),
      BotService(<<"O", "I", "L">>, <<2023, 1, 28>>, 700)>> }

BotReferences ==
  { [ref_miles |-> None, odometer |-> <<>>],
    [ref_miles |-> None,
     odometer |-> <<[date |-> IsoText(<<2023, 2, 1>>), miles |-> Some(15)]>>],
    [ref_miles |-> Some(15),
     odometer |-> <<[date |-> IsoText(<<2023, 2, 1>>), miles |-> Some(12)]>>] }

InitBot ==
  /\ cfg \in [tasks : {<<t>> : t \in BotTasks},
              thresholds : {[miles |-> None, days |-> None]}]
  /\ \E h \in BotHistories, r \in BotReferences :
       /\ data = [odometer |-> r.odometer, services |-> h]
       /\ ref_miles = r.ref_miles
  /\ ref_date \in {NoText, IsoText(RefDay)}
  /\ today = RefDay
  /\ BotLocals0
  /\ FormOff
  /\ ParseOff
  /\ app = "car" /\ csv = <<>> /\ rules = <<>> /\ current_mileage = None
  /\ pc = "idle" /\ df = <<>> /\ i = 1 /\ results = <<>> /\ hits = {}
  /\ last = None /\ due_mileage = None /\ due_date = None
  /\ miles_until = None /\ days_until = None

SpecBot == InitBot /\ [][NextBot]_vars

\* --- inputs of the add_record checks: no data file, or a file of one or
\* two records with or without the note column and a column of the user's

StoredRow ==
  [date |-> UsText(D2), mileage |-> IntRaw(4), service |-> <<"x">>,
   note |-> <<"n">>, cost |-> <<"c">>]

StoredRowNA ==
  [date |-> UsText(D2), mileage |-> NoRaw, service |-> <<"N", "A">>,
   note |-> <<>>, cost |-> <<>>]

\* a record as a file of the columns cs holds it
InColumns(r, cs) ==
  [date    |-> IF "date" \in cs THEN r.date ELSE NoText,
   mileage |-> IF "mileage" \in cs THEN r.mileage ELSE NoRaw,
   service |-> IF "service" \in cs THEN r.service ELSE <<>>,
   note    |-> IF "note" \in cs THEN r.note ELSE <<>>,
   cost    |-> IF "cost" \in cs THEN r.cost ELSE <<>>]

ColumnSets ==
  { RequiredColumns, CarColumns, CarColumns \cup {"cost"}, {"date", "service"} }

StoredFiles ==
  { [exists |-> FALSE, columns |-> {}, rows |-> <<>>] }
    \cup { [exists |-> TRUE, columns |-> cs, rows |-> <<InColumns(StoredRow, cs)>>]
           : cs \in ColumnSets }
    \cup { [exists |-> TRUE, columns |-> CarColumns,
            rows |-> <<StoredRowNA>>] }

InitForm ==
  /\ app \in Apps
  /\ data_file \in StoredFiles
  /\ date_var = NoText /\ rec_miles_var = NoRaw
  /\ service_var = <<>> /\ note_var = <<>>
  /\ BotOff
  /\ ParseOff
  /\ csv = <<>> /\ rules = <<>> /\ current_mileage = None /\ today = Today0
  /\ pc = "idle" /\ df = <<>> /\ i = 1 /\ results = <<>> /\ hits = {}
  /\ last = None /\ due_mileage = None /\ due_date = None
  /\ miles_until = None /\ days_until = None

SpecForm == InitForm /\ [][NextForm]_vars

\* --- parse_cardata starts from an empty folder; Invoke fills it

InitParse ==
  /\ ParseOff
  /\ today = Today0
  /\ BotOff
  /\ FormOff
  /\ app = "camry" /\ csv = <<>> /\ rules = <<>> /\ current_mileage = None
  /\ pc = "idle" /\ df = <<>> /\ i = 1 /\ results = <<>> /\ hits = {}
  /\ last = None /\ due_mileage = None /\ due_date = None
  /\ miles_until = None /\ days_until = None

SpecParse == InitParse /\ [][NextParse]_vars

\* a run of main goes on until it returns or raises
SpecParseLive == SpecParse /\ WF_vars(NextParse)

\* ---------------------------------------------------------------- properties

\* the name an entry carries: "key" in camry, "label" in car
EntryName(e) == IF app = "camry" THEN Val(e.key) ELSE e.label

\* the rule an entry of results was computed from
RuleOf(e) == rules[CHOOSE k \in 1..Len(rules) : Val(rules[k].key) = EntryName(e)]

\* an interval that is configured as a positive integer
Positive(raw) == raw.t = "int" /\ raw.v > 0

\* the trigger as the running module reads it
TriggerRead(rule) == IF app = "camry" THEN camry_trigger(rule) ELSE car_trigger(rule)

\* no baseline is defined by the rule
NoBaseline(rule) == rule.baseline_date = NoText /\ rule.baseline_mileage = NoRaw

\* the date text is one the running module can project from
DateKnown(txt) ==
  IF app = "camry" THEN txt.fmt = "us" ELSE txt.fmt \in {"us", "iso"}

\* C1: every entry of a rule whose trigger is mileage_only has due_date = null
\* and days_until = null, in both modules, whatever months_interval is and
\* whatever was matched.
C1_MileageOnlyHasNoDueDate ==
  \A n \in 1..Len(results) :
    LowerTrigger(RuleOf(results[n]).trigger) = "mileage_only"
      => results[n].due_date = None /\ results[n].days_until = None

\* Scenario 4 happened: a mileage_only rule with months_interval 6 matched a
\* dated event and its entry is in the list
C1_Witness ==
  \E n \in 1..Len(results) :
    /\ RuleOf(results[n]).trigger = "mileage_only"
    /\ Positive(RuleOf(results[n]).months_interval)
    /\ results[n].last_date.fmt = "us"
    /\ results[n].last_mileage # None
    /\ results[n].due_date = None

\* C2 as stated: a rule with no matching event and no baseline is UPCOMING
\* with both remaining figures null, for every interval and trigger.
C2_Original ==
  \A n \in 1..Len(results) :
    LET r == RuleOf(results[n])
    IN  (MatchMask(df, r) = {} /\ NoBaseline(r))
          => /\ results[n].status = "upcoming"
             /\ results[n].miles_until = None
             /\ results[n].days_until = None

\* C2 amended: for a rule with no matching event and no baseline, miles_until
\* is null exactly when miles_interval is not positive, days_until is null
\* exactly when months_interval is not positive or the trigger is
\* mileage_only, and the status is upcoming when both are null.
C2_NeverServiced ==
  \A n \in 1..Len(results) :
    LET r == RuleOf(results[n])
    IN  (MatchMask(df, r) = {} /\ NoBaseline(r))
          => /\ results[n].miles_until = None <=> ~Positive(r.miles_interval)
             /\ results[n].days_until = None
                  <=> ~(Positive(r.months_interval) /\ TriggerRead(r) # "mileage_only")
             /\ (results[n].miles_until = None /\ results[n].days_until = None)
                  => results[n].status = "upcoming"

\* a never-serviced rule without intervals was evaluated: nothing computed
C2_Witness ==
  \E n \in 1..Len(results) :
    LET r == RuleOf(results[n])
    IN  /\ MatchMask(df, r) = {} /\ NoBaseline(r)
        /\ ~Positive(r.miles_interval)
        /\ results[n].miles_until = None /\ results[n].days_until = None
        /\ results[n].status = "upcoming"

\* C3: an entry is OVERDUE exactly when miles_until is non-null and <= 0 or
\* days_until is non-null and <= 0; an entry with both null is never OVERDUE.
C3_OverdueIff ==
  \A n \in 1..Len(results) :
    LET e == results[n]
    IN  /\ e.status \in {"OVERDUE", "upcoming"}
        /\ e.status = "OVERDUE"
             <=> \/ (e.miles_until # None /\ Val(e.miles_until) <= 0)
                 \/ (e.days_until # None /\ Val(e.days_until) <= 0)

\* an entry whose mileage margin is exactly 0 while its date margin is still
\* positive is in the list, OVERDUE
C3_Witness ==
  \E n \in 1..Len(results) :
    /\ results[n].miles_until = Some(0)
    /\ results[n].days_until # None /\ Val(results[n].days_until) > 0
    /\ results[n].status = "OVERDUE"

\* C10: with a matched event (real or baseline) the local due_mileage is
\* last_mileage + miles_interval exactly when miles_interval > 0 and the
\* matched mileage is known, else null; the local due_date is non-null
\* exactly when months_interval > 0, the matched date is known and the
\* trigger is not mileage_only.
C10_ProjectionFromMatch ==
  (i > 1 /\ last # None) =>
    LET r == rules[i - 1]
        e == Val(last)
    IN  /\ due_mileage =
             IF Positive(r.miles_interval) /\ e.mileage # None
             THEN Some(Val(e.mileage) + r.miles_interval.v * Denom)
             ELSE None
        /\ due_date # None
             <=> /\ Positive(r.months_interval)
                 /\ DateKnown(e.date)
                 /\ TriggerRead(r) # "mileage_only"

\* a rule with both intervals matched a dated event with a mileage and both
\* due figures were projected
C10_Witness ==
  /\ i > 1 /\ last # None
  /\ Val(last).mileage # None
  /\ due_mileage # None
  /\ due_date # None

\* position of an entry's rule in the rule file
KeyIndex(e) == CHOOSE k \in 1..Len(rules) : Val(rules[k].key) = EntryName(e)

\* the sort key the ranking is specified by
RankKey(e) == <<IF e.status = "OVERDUE" THEN 0 ELSE 1, e.urgency_metric>>

\* out is the list in sorted stably by RankKey ascending
IsStableSortOf(out, in) ==
  /\ Len(out) = Len(in)
  /\ \E p \in [1..Len(in) -> 1..Len(in)] :
       /\ \A a, b \in 1..Len(in) : a # b => p[a] # p[b]
       /\ \A k \in 1..Len(in) : out[k] = in[p[k]]
       /\ \A a, b \in 1..Len(in) :
            a < b =>
              \/ RankKey(out[a])[1] < RankKey(out[b])[1]
              \/ /\ RankKey(out[a])[1] = RankKey(out[b])[1]
                 /\ RankKey(out[a])[2] < RankKey(out[b])[2]
              \/ /\ RankKey(out[a]) = RankKey(out[b])
                 /\ p[a] < p[b]

\* C4: the list camry's compute_next_due returns is the per-rule results
\* sorted stably by (0 if OVERDUE else 1, urgency_metric) ascending: OVERDUE
\* entries first, ascending urgency_metric within a tier, definition order
\* among equal keys.
C4_StableRanking ==
  [][(app = "camry" /\ pc = "loop" /\ pc' = "done")
       => IsStableSortOf(results', results)]_vars

\* the sort has moved an OVERDUE entry ahead of an upcoming entry defined
\* before it, put a larger overdue margin ahead of a smaller one defined
\* before it, and kept two entries with equal keys in definition order
C4_Witness ==
  /\ app = "camry" /\ pc = "done"
  /\ \E a, b \in 1..Len(results) :
       /\ a < b
       /\ results[a].status = "OVERDUE" /\ results[b].status = "upcoming"
       /\ KeyIndex(results[a]) > KeyIndex(results[b])
  /\ \E a, b \in 1..Len(results) :
       /\ a < b
       /\ results[a].status = "OVERDUE" /\ results[b].status = "OVERDUE"
       /\ results[a].urgency_metric < results[b].urgency_metric
       /\ KeyIndex(results[a]) > KeyIndex(results[b])

\* C5 as stated: in the list car's compute_next_due returns no non-overdue
\* entry comes before an OVERDUE entry.
C5_CarListRanked ==
  (app = "car" /\ pc = "done") =>
    \A a, b \in 1..Len(results) :
      a < b => ~(results[a].status # "OVERDUE" /\ results[b].status = "OVERDUE")

\* the rows of hits all carry an MM/DD/YYYY date and a mileage
AllDatedAndMileaged(h) ==
  \A k \in h : df[k].date.fmt = "us" /\ df[k].mileage # None

\* C6: when every matching event has a parseable MM/DD/YYYY date and a known
\* mileage, last_event_for_rule returns a matching event of the latest date
\* and, among those of that date, of the highest mileage.
C6_LatestThenHighestMileage ==
  (i > 1 /\ hits # {} /\ AllDatedAndMileaged(hits)) =>
    /\ last # None
    /\ \E j \in hits :
         /\ Val(last).date = df[j].date
         /\ Val(last).mileage = df[j].mileage
         /\ Val(last).service_text = df[j].service
    /\ \A k \in hits :
         \/ Ordinal(df[k].date.ymd) < Ordinal(Val(last).date.ymd)
         \/ /\ df[k].date.ymd = Val(last).date.ymd
            /\ Val(df[k].mileage) <= Val(Val(last).mileage)

\* two matching events of the same date and different mileage, the lower
\* mileage later in the file, and one of an earlier date: the higher mileage
\* of the latest date was returned
C6_Witness ==
  /\ i > 1 /\ AllDatedAndMileaged(hits)
  /\ \E j, k \in hits :
       /\ j < k
       /\ df[j].date = df[k].date
       /\ Val(df[j].mileage) > Val(df[k].mileage)
       /\ last = Some(RowDict(df[j]))

\* C7 as stated: whenever a matching event has a parseable date, the event
\* returned has a parseable date.
C7_UnparsableSortsFirst ==
  (i > 1 /\ \E k \in hits : df[k].date.fmt = "us")
    => (last # None /\ Val(last).date.fmt = "us")

\* description contains the keyword, both compared case-insensitively
MatchesAnyCase(row, rule) ==
  \E n \in 1..Len(rule.match) : Contains(Lower(row.service), Lower(rule.match[n]))

\* C8 as stated: an event matches a rule exactly when its description,
\* compared case-insensitively, contains one of the rule's keywords, upper-case
\* keywords included; an empty keyword list matches nothing.
C8_CaseInsensitiveMatch ==
  i > 1 =>
    hits = {k \in 1..Len(df) : MatchesAnyCase(df[k], rules[i - 1])}

\* the baseline values of a rule that can be used
UsableDate(rule) == rule.baseline_date.fmt \in {"us", "iso"}
UsableMileage(rule) == rule.baseline_mileage.t \in {"int", "num"}

\* the synthesized event the claim describes, from the values given
Synthesized(rule, hasDate, hasMileage) ==
  [service_text |-> <<"(baseline) ">> \o Val(rule.label),
   date         |-> IF hasDate THEN UsText(rule.baseline_date.ymd) ELSE NoText,
   mileage      |-> IF ~hasMileage THEN None
                    ELSE IF rule.baseline_mileage.t = "int"
                         THEN Some(rule.baseline_mileage.v * Denom)
                         ELSE Some(rule.baseline_mileage.v),
   note         |-> <<"Baseline from schedule rules">>]

TruncatedTo(n, x) ==
  /\ x >= 0 => (n * Denom <= x /\ x < n * Denom + Denom)
  /\ x < 0  => (n * Denom >= x /\ x > n * Denom - Denom)

\* the entries of results computed from the rule evaluated last
EntriesOfCurrent == {n \in 1..Len(results) : EntryName(results[n]) = Val(rules[i - 1].key)}

\* C11: with no matched event and no baseline, the local due_mileage is
\* miles_interval exactly when miles_interval > 0 (miles_until is then
\* int(miles_interval - reference mileage)), and due_date is the reference
\* date exactly when months_interval > 0 and the trigger is not mileage_only;
\* such a rule has days_until = 0 and status OVERDUE.
C11_FirstTimeProjection ==
  (i > 1 /\ last = None) =>
    LET r == rules[i - 1]
        timed == Positive(r.months_interval) /\ TriggerRead(r) # "mileage_only"
    IN  /\ due_mileage = IF Positive(r.miles_interval)
                         THEN Some(r.miles_interval.v * Denom) ELSE None
        /\ Positive(r.miles_interval) =>
             /\ miles_until # None
             /\ TruncatedTo(Val(miles_until),
                            r.miles_interval.v * Denom - Val(current_mileage))
             /\ Val(current_mileage) % Denom = 0 =>
                  Val(miles_until) = r.miles_interval.v - (Val(current_mileage) \div Denom)
        /\ due_date = IF timed THEN Some(today) ELSE None
        /\ timed => /\ days_until = Some(0)
                    /\ \A n \in EntriesOfCurrent : results[n].status = "OVERDUE"

\* a never-serviced rule without a mileage interval was flagged OVERDUE on
\* the time basis alone
C11_Witness ==
  /\ i > 1 /\ last = None
  /\ ~Positive(rules[i - 1].miles_interval)
  /\ due_date = Some(today)
  /\ days_until = Some(0)
  /\ \E n \in EntriesOfCurrent : results[n].status = "OVERDUE"

\* an entry is OVERDUE on the mileage basis
MileageOverdue(mu) == mu # None /\ Val(mu) <= 0

\* C20 as stated: the integer conversion never changes the classification (a
\* rule is OVERDUE on the mileage basis exactly when the reference mileage
\* has reached due_mileage), and the reported integer due_mileage minus the
\* truncated reference mileage is the reported miles_until.
C20_Original ==
  (i > 1 /\ due_mileage # None) =>
    /\ MileageOverdue(miles_until) <=> Val(current_mileage) >= Val(due_mileage)
    /\ app = "camry" =>
         \A n \in EntriesOfCurrent :
           Val(results[n].due_mileage) - PyInt(Val(current_mileage))
             = Val(results[n].miles_until)

\* C20 amended: miles_until is due_mileage - reference mileage truncated
\* toward zero, so a rule is OVERDUE on the mileage basis exactly when the
\* reference mileage is less than one mile short of due_mileage; when both
\* mileages are whole numbers this is reference >= due_mileage, and the
\* integer due_mileage camry reports minus the reference is miles_until.
C20_TruncatedMargin ==
  (i > 1 /\ due_mileage # None) =>
    LET diff  == Val(due_mileage) - Val(current_mileage)
        whole == Val(due_mileage) % Denom = 0 /\ Val(current_mileage) % Denom = 0
    IN  /\ miles_until # None
        /\ TruncatedTo(Val(miles_until), diff)
        /\ MileageOverdue(miles_until) <=> diff < Denom
        /\ whole =>
             /\ MileageOverdue(miles_until) <=> Val(current_mileage) >= Val(due_mileage)
             /\ app = "camry" =>
                  \A n \in EntriesOfCurrent :
                    Val(results[n].due_mileage) - (Val(current_mileage) \div Denom)
                      = Val(results[n].miles_until)

\* a rule due a fraction of a mile ahead of the reference mileage was
\* classified OVERDUE with miles_until = 0
C20_Witness ==
  /\ i > 1 /\ due_mileage # None
  /\ Val(due_mileage) > Val(current_mileage)
  /\ miles_until = Some(0)
  /\ \E n \in EntriesOfCurrent : results[n].status = "OVERDUE"

\* the inputs of Scenario 2: the oil rule first in the rule file, reference
\* mileage 14000, reference date 03/01/2023
Scenario2 ==
  /\ app = "camry"
  /\ rules[1] = Keyed(<<OilRule>>)[1]
  /\ current_mileage = Some(ToFloat(14000))
  /\ today = <<2023, 3, 1>>

\* C12 as stated: Scenario 2 yields miles_remaining 1000, days_remaining 92,
\* status UPCOMING and urgency_metric 1000.
C12_Original ==
  Scenario2 =>
    \A n \in 1..Len(results) :
      EntryName(results[n]) = <<"r1">> =>
        /\ results[n].miles_until = Some(1000)
        /\ results[n].days_until = Some(92)
        /\ results[n].status = "upcoming"
        /\ results[n].urgency_metric = 1000

\* C12 amended: Scenario 2 yields miles_remaining 1000, days_remaining 122
\* (due 07/01/2023), status UPCOMING and urgency_metric 122.
C12_Scenario2 ==
  Scenario2 =>
    \A n \in 1..Len(results) :
      EntryName(results[n]) = <<"r1">> =>
        /\ results[n].miles_until = Some(1000)
        /\ results[n].due_date = Some(IsoText(<<2023, 7, 1>>))
        /\ results[n].days_until = Some(122)
        /\ results[n].status = "upcoming"
        /\ results[n].urgency_metric = 122

\* Scenario 2 was evaluated and returned
C12_Witness ==
  /\ Scenario2 /\ pc = "done"
  /\ \E n \in 1..Len(results) :
       /\ EntryName(results[n]) = <<"r1">>
       /\ results[n].last_service = Text_oil_change
       /\ results[n].due_mileage = Some(15000)

\* the least of the margins an entry has
LeastMargin(e) ==
  IF e.miles_until # None /\ e.days_until # None
  THEN (IF Val(e.miles_until) <= Val(e.days_until)
        THEN Val(e.miles_until) ELSE Val(e.days_until))
  ELSE IF e.miles_until # None THEN Val(e.miles_until)
  ELSE Val(e.days_until)

NoMargin(e) == e.miles_until = None /\ e.days_until = None

\* C13 as stated: in camry urgency_metric is the minimum of the non-null
\* margins whatever their size, the sentinel when both are null, and an entry
\* without margins is placed after every non-overdue entry that has one.
C13_UrgencyIsLeastMargin ==
  app = "camry" =>
    /\ \A n \in 1..Len(results) :
         results[n].urgency_metric =
           IF NoMargin(results[n]) THEN Sentinel ELSE LeastMargin(results[n])
    /\ pc = "done" =>
         \A a, b \in 1..Len(results) :
           (a < b /\ NoMargin(results[a]) /\ ~NoMargin(results[b]))
             => results[b].status = "OVERDUE"

\* the input rule of an entry has exactly that one entry
OneEntryPerRule ==
  /\ Len(results) = Len(rules)
  /\ \A k \in 1..Len(rules) :
       Cardinality({n \in 1..Len(results) :
                      EntryName(results[n]) = Val(rules[k].key)}) = 1

\* C14 as stated: compute_next_due never fails and returns exactly one entry
\* per input rule, whatever the event history.
C14_NeverFails ==
  /\ pc # "raised"
  /\ pc = "done" => OneEntryPerRule

Malformed(raw) == raw.t = "text" \/ (raw.t = "int" /\ raw.v < 0)

\* C15 as stated: with a reference mileage present, a rule whose interval is
\* negative or non-numeric raises nothing, its due field for that interval is
\* null, and evaluation goes on to the other rules.
C15_MalformedIntervalIgnored ==
  current_mileage # None =>
    /\ pc # "raised"
    /\ \A n \in 1..Len(results) :
         /\ Malformed(RuleOf(results[n]).miles_interval)
              => results[n].due_mileage = None
         /\ Malformed(RuleOf(results[n]).months_interval)
              => results[n].due_date = None
    /\ pc = "done" => OneEntryPerRule

WellFormed(rule) ==
  rule.miles_interval.t # "text" /\ rule.months_interval.t # "text"

\* C16 as stated: with well-formed rules and no reference mileage the
\* evaluation completes, miles_until is null in every entry, and due_date and
\* days_until are those computed when a reference mileage is present.
C16_MissingReferenceMileage ==
  (current_mileage = None /\ \A k \in 1..Len(rules) : WellFormed(rules[k])) =>
    /\ pc # "raised"
    /\ \A n \in 1..Len(results) :
         LET r == EvalRule(app, df, RuleOf(results[n]), Some(9), today)
         IN  /\ results[n].miles_until = None
             /\ results[n].due_date = r.entry.due_date
             /\ results[n].days_until = r.entry.days_until

\* C19 as stated: in car_maintenances, when the selected event has a date
\* that compute_next_due can project from, no other matching event has a
\* later such date.
C19_SelectedIsLatestProjectable ==
  (app = "car" /\ i > 1 /\ hits # {} /\ last # None
     /\ parse_flexible_date(Val(last).date) # None) =>
    \A k \in hits :
      parse_flexible_date(df[k].date) # None =>
        Ordinal(Val(parse_flexible_date(df[k].date)))
          <= Ordinal(Val(parse_flexible_date(Val(last).date)))

\* the task compute was last called for
BotTask == cfg.tasks[IF bot_pc = "raised" THEN bot_i ELSE bot_i - 1]

\* compute has called add_months(a_dt, interval_months) with a count of one
\* or more months
AddMonthsCalled ==
  /\ a_dt # None
  /\ bot_pc = "raised" \/ bot_i > 1
  /\ BotTask.interval_months # None
  /\ Val(BotTask.interval_months) >= 1

\* the year and month m calendar months after those of d0
TargetMonth(d0, m) ==
  LET total == (d0[1] * 12) + (d0[2] - 1) + m
  IN  <<total \div 12, (total % 12) + 1>>

\* the target month with the day of d0 clamped to the month's length
ClampedTarget(d0, m) ==
  LET tm == TargetMonth(d0, m)
  IN  <<tm[1], tm[2], Min(d0[3], DaysInMonth(tm[1], tm[2]))>>

\* a date of the Gregorian calendar that datetime.date can hold
ValidDate(d) ==
  /\ d[1] \in 1..MaxYear
  /\ d[2] \in 1..12
  /\ d[3] \in 1..DaysInMonth(d[1], d[2])

\* C17 as stated: add_months(d0, m) returns, for every valid d0 and m >= 1,
\* the valid date m calendar months later with the day clamped to the target
\* month's length.
C17_Original ==
  AddMonthsCalled =>
    /\ bot_pc # "raised"
    /\ next_dt = Some(ClampedTarget(Val(a_dt), Val(BotTask.interval_months)))
    /\ ValidDate(Val(next_dt))

\* C17 amended: when the target month is not after December 9999,
\* add_months(d0, m) returns the valid date m calendar months later with the
\* day clamped to the target month's length (February 29 days exactly in
\* Gregorian leap years); for a later target month it raises.
C17_AddMonths ==
  AddMonthsCalled =>
    IF TargetMonth(Val(a_dt), Val(BotTask.interval_months))[1] <= MaxYear
    THEN /\ bot_pc # "raised"
         /\ next_dt = Some(ClampedTarget(Val(a_dt), Val(BotTask.interval_months)))
         /\ ValidDate(Val(next_dt))
    ELSE bot_pc = "raised"

\* two months after 31 December 2023 is 29 February 2024
C17_Witness ==
  /\ AddMonthsCalled
  /\ bot_pc = "done"
  /\ a_dt = Some(<<2023, 12, 31>>)
  /\ next_dt = Some(<<2024, 2, 29>>)

\* the status compute_next_due gives the due mileage, due date and references
\* of a row of maintenance_bot
StatusForRow(row) ==
  StatusOf(IF row.next_due_miles = None THEN None
           ELSE MilesUntil(Some(ToFloat(Val(row.next_due_miles))),
                           Some(ToFloat(Val(ref_mi)))),
           DaysUntil(IF row.next_due_date.fmt = "none" THEN None
                     ELSE Some(row.next_due_date.ymd), ref_dt))

\* C18 as stated: for the same due mileage, due date and references,
\* maintenance_bot.compute reports overdue exactly when compute_next_due
\* reports OVERDUE, and never reports overdue and due_soon together.
C18_OverdueAgrees ==
  \A n \in 1..Len(bot_rows) :
    (bot_rows[n].next_due_miles = None \/ ref_mi # None) =>
      /\ bot_rows[n].overdue <=> (StatusForRow(bot_rows[n]) = "OVERDUE")
      /\ ~(bot_rows[n].overdue /\ bot_rows[n].due_soon)

\* the value read_csv gives the cell of column c of record r
ReadCell(c, r) ==
  IF c = "mileage" THEN BaselineMileage(r.mileage)
  ELSE IF c = "date" THEN Some(r.date)
  ELSE IF r[c] \in NaTexts THEN None ELSE Some(r[c])

\* the call reaches the write: the fields pass the checks and the file, if
\* there is one, has the required columns
RecordAccepted ==
  /\ ~FieldsRejected(date_var, rec_miles_var, Strip(service_var))
  /\ data_file.exists => RequiredColumns \subseteq data_file.columns

\* C21: a rejected add_record call leaves the data file unchanged; an
\* accepted call leaves every stored record unchanged in every column it
\* had, in the same order, followed by exactly one new record carrying the
\* date, mileage and service entered.
C21_AppendOnly ==
  [][AddRecord =>
       IF ~RecordAccepted THEN data_file' = data_file
       ELSE /\ Len(data_file'.rows) = Len(data_file.rows) + 1
            /\ \A k \in 1..Len(data_file.rows) :
                 \A c \in data_file.columns :
                   /\ c \in data_file'.columns
                   /\ ReadCell(c, data_file'.rows[k]) = ReadCell(c, data_file.rows[k])
            /\ LET new == data_file'.rows[Len(data_file'.rows)]
               IN  /\ new.date = date_var
                   /\ ReadCell("mileage", new) = Some(FieldMileage(rec_miles_var))
                   /\ new.service = Strip(service_var)]_vars

\* the log holds a write of the output file f
Written(f) == \E n \in 1..Len(fs.log) : fs.log[n].op = "write" /\ fs.log[n].file = f

\* every write of f in the log has a copy of f before it
BackedUpBeforeWrite(f) ==
  \A n \in 1..Len(fs.log) :
    (fs.log[n].op = "write" /\ fs.log[n].file = f) =>
      \E k \in 1..(n - 1) : fs.log[k].op = "copy" /\ fs.log[k].file = f

\* C22: a run of main without --dry-run on an existing cardata.csv with a
\* usable row eventually writes maintenance_data.json and
\* maintenance_config.yaml, an output that existed is copied to a backup
\* before it is overwritten, and a run with --dry-run writes and copies
\* nothing.
C22_RunWritesOutputs ==
  /\ (main_pc = "start" /\ ~args.dry_run /\ fs.csv # None
        /\ Services(Val(fs.csv)) # <<>>)
       ~> (Written("data") /\ Written("cfg"))
  /\ [](args.dry_run => fs.log = <<>>)
  /\ []((Written("data") /\ fs.log[1].file # "data") => BackedUpBeforeWrite("data"))

====
